---- MODULE Spec2Model ----
(***************************************************************************)
(* Model of the job orchestration engine of oxidlp: the command            *)
(* coordinator WorkerPool::run (src/src/worker/mod.rs), the download       *)
(* driver and the metadata-fetch driver (src/src/worker/ytdlp.rs), the     *)
(* inbound command channel and the outbound event channel                  *)
(* (src/src/main.rs).                                                      *)
(*                                                                         *)
(* The coordinator and every spawned task run on the multi-threaded tokio  *)
(* runtime, so each is a process whose steps are the pieces of code        *)
(* between two suspension points (.await) or two accesses to shared state  *)
(* (the semaphore, the registry mutex, the channels).                      *)
(*                                                                         *)
(* The caller of the engine is the environment: it may place any command   *)
(* in the inbound channel at any time, as the holder of a                  *)
(* mpsc::Sender<WorkerCommand> can.  In particular it may send StartJob    *)
(* twice for one job identifier, which App::handle_event(StartDownloads)   *)
(* does for a job that is still Queued (src/src/app.rs:170-184).           *)
(*                                                                         *)
(* Spec is the download side under any caller.  SpecEngine adds the        *)
(* metadata fetches, SpecConc the changes of the ceiling, and in SpecApp   *)
(* the caller is App itself (src/src/app.rs): its handlers send the        *)
(* commands and fold the events into App.jobs.  SpecCalls runs the pure    *)
(* functions (Format::is_video, Format::is_audio_only, parse_progress) and *)
(* the read loop of download on inputs drawn from bounded sets.  SpecUi is *)
(* App with its job list, its selection, its format popup and its          *)
(* playlists over the metadata side of the engine, SpecSettings is App     *)
(* with its settings popup started with any -j, and SpecQuit is App with   *)
(* its quit dialogue.                                                      *)
(***************************************************************************)
EXTENDS Integers, Sequences, FiniteSets, TLC

\* ---------------------------------------------------------------- bounds
NumJobs == 2       \* job identifiers 1..NumJobs
MaxTasks == 2      \* StartJob commands the caller sends in one run
MaxFetches == 1    \* FetchFormats commands the caller sends in one run
MaxLines == 1      \* stdout lines one subprocess prints before end of stream
MaxK == 2          \* largest concurrency ceiling tried
CmdCap == 2        \* capacity of the inbound command channel in the model
EvCap == 1         \* capacity of the outbound event channel in the model
MaxFormats == 1    \* format records in one answer of the tool
MaxTokens == 3     \* whitespace-delimited tokens of one output line
MaxRead == 3       \* output lines one read loop is run on
MaxPlaylists == 1  \* playlist urls the caller adds in one run
MaxConcurrent == 11 \* largest value given to -j
MaxPopupFormats == 2 \* format records in one answer of the tool, for the popup

JobIds == 1..NumJobs

VARIABLES
    ceiling,     \* config.max_concurrent_downloads, the K of the semaphore
    permits,     \* permits available in the semaphore
    cmdq,        \* inbound channel: commands sent and not yet received
    coord,       \* the coordinator: its position and the StartJob it handles
    registry,    \* active_jobs: job id -> token (0: no entry)
    cancelled,   \* tokens on which cancel() was called
    tasks,       \* download tasks ever spawned; task t holds token t
    fetches,     \* metadata-fetch tasks ever spawned
    evq,         \* outbound channel: events sent and not yet received
    emitted,     \* per job, the events the download tasks have sent
    jobs,        \* App.jobs: per job id its status, error text, formats
    popup,       \* App.format_popup: the job it was opened for, its formats
    cancelReq,   \* jobs the caller cancelled while they were Downloading
    ui,          \* App: selection, quit flags, settings, playlists, config
    call         \* a function of the program run on its own: input, result

\* What belongs to the caller (App, src/src/app.rs)
appVars == <<jobs, popup, cancelReq, ui>>

\* The engine and its caller
programVars == <<ceiling, permits, cmdq, coord, registry, cancelled, tasks,
                 fetches, evq, emitted, jobs, popup, cancelReq, ui>>

vars == <<programVars, call>>

\* ------------------------------------------------------------ data shapes
\* WorkerCommand (src/src/events.rs:178-186), the variants WorkerPool::run matches
FetchFormatsCmd(j) == [type |-> "FetchFormats", job |-> j]
StartJobCmd(j) == [type |-> "StartJob", job |-> j]
CancelJobCmd(j) == [type |-> "CancelJob", job |-> j]
ShutdownCmd == [type |-> "Shutdown", job |-> 0]

\* WorkerCommand::FetchPlaylist { url } (events.rs:181)
FetchPlaylistCmd == [type |-> "FetchPlaylist", job |-> 0]

\* WorkerCommand::UpdateConcurrent(usize) (events.rs:184), which SaveSettings
\* sends with the value of the settings popup (app.rs:339-346)
UpdateConcurrentCmd(n) == [type |-> "UpdateConcurrent", job |-> 0, n |-> n]

\* AppEvent, the variants the engine sends (src/src/events.rs:170-174)
Event(ty, j) == [type |-> ty, job |-> j]

\* AppEvent::JobFailed { id, error } (events.rs:174)
FailedEvent(j, err) == [type |-> "JobFailed", job |-> j, error |-> err]

\* The text of the error download returns: the one of a cancellation
\* (ytdlp.rs:101), or that of any other failure
ErrorText(result) ==
    IF result = "cancelled" THEN "Download cancelled" ELSE "download error"

\* One entry of the history of a job: the event type and the task that sent it
Emit(ty, t) == [type |-> ty, task |-> t]

Terminal == {"JobCompleted", "JobFailed"}

\* The state of a download task right after tokio::spawn (mod.rs:74-75):
\* it owns the permit and the token, and has run nothing yet.
NewTask(j) ==
    [job |-> j, pc |-> "start", child |-> "none", lines |-> 0,
     path |-> FALSE, exit |-> "none", result |-> "none", permit |-> TRUE]

\* A job id for which App.jobs holds no Job yet
NoJob == [status |-> "Absent", error |-> "", formats |-> <<>>, selected |-> FALSE]

\* An id whose Job was taken out of App.jobs (jobs.retain, app.rs:196)
RemovedJob == [status |-> "Removed", error |-> "", formats |-> <<>>,
               selected |-> FALSE]

\* Job j is an element of App.jobs
InJobs(j) == jobs[j].status \notin {"Absent", "Removed"}

\* Job::new (events.rs:211-221)
NewJob == [status |-> "FetchingFormats", error |-> "", formats |-> <<>>,
           selected |-> FALSE]

\* App.format_popup = None
NoPopup == [job |-> 0, formats |-> <<>>, selected |-> 0, scroll_offset |-> 0,
            audio_only |-> FALSE, apply_to_all |-> FALSE]

\* FormatPopupState::new (events.rs:90-99) for job j
NewPopup(j, fs) == [NoPopup EXCEPT !.job = j, !.formats = fs]

\* App.settings_popup = None
NoSettings == [open |-> FALSE, selected_field |-> 0, concurrent_downloads |-> 0,
               editing_path |-> FALSE]

\* SettingsState::new (events.rs:128-135)
NewSettings(concurrent) == [open |-> TRUE, selected_field |-> 0,
                            concurrent_downloads |-> concurrent,
                            editing_path |-> FALSE]

\* App::new (app.rs:26-44) with config.max_concurrent_downloads = k, which
\* main sets to cli.concurrent (main.rs:65).  offered counts the Shutdown
\* commands handed to try_send, placed the FetchPlaylist commands try_send
\* queued, answered the PlaylistExpanded events handled, and last names the
\* event of the quit dialogue handled last.
NewApp(k) ==
    [selected_index |-> 0, confirm_quit |-> FALSE, should_quit |-> FALSE,
     loading_playlists |-> 0, settings_popup |-> NoSettings,
     max_concurrent_downloads |-> k,
     offered |-> 0, placed |-> 0, answered |-> 0, last |-> "none"]

\* No function is being run on its own
NoCall == [fn |-> "none", arg |-> <<>>, pos |-> 0, path |-> <<>>, sent |-> 0,
           ret |-> <<>>, done |-> FALSE]

\* main (main.rs:59-76) run with -j k: the semaphore of WorkerPool::run
\* (mod.rs:36-38) and the configuration of App both get k
InitWith(k) ==
    /\ ceiling = k
    /\ permits = ceiling
    /\ cmdq = <<>>
    /\ coord = [pc |-> "recv", job |-> 0, permit |-> FALSE]
    /\ registry = [j \in JobIds |-> 0]
    /\ cancelled = {}
    /\ tasks = <<>>
    /\ fetches = <<>>
    /\ evq = <<>>
    /\ emitted = [j \in JobIds |-> <<>>]
    /\ jobs = [j \in JobIds |-> NoJob]
    /\ popup = NoPopup
    /\ cancelReq = {}
    /\ ui = NewApp(k)

InitProgram == \E k \in 1..MaxK : InitWith(k)

Init == InitProgram /\ call = NoCall

\* ------------------------------------------------------------ the caller
\* mpsc::Sender::try_send on the inbound channel: the command is queued when
\* the channel has room and is open, and is dropped otherwise (no step).  The
\* channel closes when run returns and drops the receiver; what was queued
\* behind Shutdown is then never received, and stays in cmdq in the model.
\* The model stops the caller from sending more than MaxTasks StartJob and
\* more than MaxFetches FetchFormats commands.
PendingStarts ==
    Len(SelectSeq(cmdq, LAMBDA c : c.type = "StartJob"))
        + (IF coord.pc \in {"acquire", "insert"} THEN 1 ELSE 0) + Len(tasks)

PendingFetches ==
    Len(SelectSeq(cmdq, LAMBDA c : c.type = "FetchFormats")) + Len(fetches)

WithinBudget(c) ==
    CASE c.type = "StartJob" -> PendingStarts < MaxTasks
      [] c.type = "FetchFormats" -> PendingFetches < MaxFetches
      [] OTHER -> TRUE

SendCommand(c) ==
    /\ Len(cmdq) < CmdCap
    /\ coord.pc # "done"
    /\ WithinBudget(c)
    /\ cmdq' = Append(cmdq, c)
    /\ UNCHANGED <<ceiling, permits, coord, registry, cancelled, tasks,
                   fetches, evq, emitted>>
    /\ UNCHANGED appVars
    /\ UNCHANGED call

\* The caller takes the next event off the outbound channel (try_recv in
\* run_app, main.rs:117-119).
EventRecv ==
    /\ evq # <<>>
    /\ evq' = Tail(evq)
    /\ UNCHANGED <<ceiling, permits, cmdq, coord, registry, cancelled,
                   tasks, fetches, emitted>>
    /\ UNCHANGED appVars
    /\ UNCHANGED call

\* The state of a fetch task right after tokio::spawn (mod.rs:44): nothing
\* run yet.  invoked and sent count its tool invocations and its events; raw
\* is info.formats, the list the tool answered, while fetch_formats holds it.
NewFetch(j) ==
    [job |-> j, pc |-> "run", ret |-> "none", raw |-> <<>>, formats |-> <<>>,
     invoked |-> 0, sent |-> 0]

\* ------------------------------------------------------------ coordinator
\* while let Some(cmd) = command_rx.recv().await, FetchFormats arm
RecvFetchFormats ==
    /\ coord.pc = "recv"
    /\ cmdq # <<>>
    /\ Head(cmdq).type = "FetchFormats"
    /\ cmdq' = Tail(cmdq)
    /\ fetches' = Append(fetches, NewFetch(Head(cmdq).job))
    /\ UNCHANGED <<ceiling, permits, coord, registry, cancelled, tasks,
                   evq, emitted>>
    /\ UNCHANGED appVars
    /\ UNCHANGED call

\* A coordinator that registers the job before it has a permit
RecvStartJobEager ==
    /\ coord.pc = "recv"
    /\ cmdq # <<>>
    /\ Head(cmdq).type = "StartJob"
    /\ cmdq' = Tail(cmdq)
    /\ registry' = [registry EXCEPT ![Head(cmdq).job] = Len(tasks) + 1]
    /\ coord' = [pc |-> "acquire", job |-> Head(cmdq).job, permit |-> FALSE]
    /\ UNCHANGED <<ceiling, permits, cancelled, tasks, fetches, evq, emitted>>
    /\ UNCHANGED appVars
    /\ UNCHANGED call

\* A coordinator whose loop goes on receiving after Shutdown
RecvStartJobAfterShutdown ==
    /\ coord.pc \in {"recv", "done"}
    /\ cmdq # <<>>
    /\ Head(cmdq).type = "StartJob"
    /\ cmdq' = Tail(cmdq)
    /\ coord' = [pc |-> "acquire", job |-> Head(cmdq).job, permit |-> FALSE]
    /\ UNCHANGED <<ceiling, permits, registry, cancelled, tasks, fetches, evq,
                   emitted>>
    /\ UNCHANGED appVars
    /\ UNCHANGED call

\* StartJob arm, up to the suspension in acquire_owned().await
RecvStartJob ==
    /\ coord.pc = "recv"
    /\ cmdq # <<>>
    /\ Head(cmdq).type = "StartJob"
    /\ cmdq' = Tail(cmdq)
    /\ coord' = [pc |-> "acquire", job |-> Head(cmdq).job, permit |-> FALSE]
    /\ UNCHANGED <<ceiling, permits, registry, cancelled, tasks,
                   fetches, evq, emitted>>
    /\ UNCHANGED appVars
    /\ UNCHANGED call

\* A coordinator that takes a permit without waiting for one to be free
AcquirePermitNoWait ==
    /\ coord.pc = "acquire"
    /\ permits' = permits - 1
    /\ coord' = [coord EXCEPT !.pc = "insert", !.permit = TRUE]
    /\ UNCHANGED <<ceiling, cmdq, registry, cancelled, tasks, fetches, evq,
                   emitted>>
    /\ UNCHANGED appVars
    /\ UNCHANGED call

\* semaphore.clone().acquire_owned().await completes: one permit is taken.
\* The semaphore is never closed, so the Err branch (continue) is never taken.
AcquirePermit ==
    /\ coord.pc = "acquire"
    /\ permits > 0
    /\ permits' = permits - 1
    /\ coord' = [coord EXCEPT !.pc = "insert", !.permit = TRUE]
    /\ UNCHANGED <<ceiling, cmdq, registry, cancelled, tasks, fetches,
                   evq, emitted>>
    /\ UNCHANGED appVars
    /\ UNCHANGED call

\* CancellationToken::new(); jobs.insert(job.id, token) under the lock;
\* tokio::spawn of the download task, which takes the permit and the token.
\* The token of the n-th task spawned is n.
InsertAndSpawn ==
    /\ coord.pc = "insert"
    /\ registry' = [registry EXCEPT ![coord.job] = Len(tasks) + 1]
    /\ tasks' = Append(tasks, NewTask(coord.job))
    /\ coord' = [pc |-> "recv", job |-> 0, permit |-> FALSE]
    /\ UNCHANGED <<ceiling, permits, cmdq, cancelled, fetches, evq,
                   emitted>>
    /\ UNCHANGED appVars
    /\ UNCHANGED call

\* A lookup that cancels every token ever created for the id
CancelLookupStale(id) == {t \in DOMAIN tasks : tasks[t].job = id}

\* CancelJob arm: under the lock, cancel the token registered for the id
CancelLookup(id) == IF registry[id] # 0 THEN {registry[id]} ELSE {}

RecvCancelJob ==
    /\ coord.pc = "recv"
    /\ cmdq # <<>>
    /\ Head(cmdq).type = "CancelJob"
    /\ cmdq' = Tail(cmdq)
    /\ cancelled' = cancelled \cup CancelLookup(Head(cmdq).job)
    /\ UNCHANGED <<ceiling, permits, coord, registry, tasks, fetches,
                   evq, emitted>>
    /\ UNCHANGED appVars
    /\ UNCHANGED call

\* A Shutdown that cancels only the token inserted last
ShutdownTokensLast == {registry[j] : j \in JobIds} \cap {Len(tasks)}

\* Shutdown arm: under the lock, cancel every registered token, then break
ShutdownTokens == {registry[j] : j \in JobIds} \ {0}

RecvShutdown ==
    /\ coord.pc = "recv"
    /\ cmdq # <<>>
    /\ Head(cmdq).type = "Shutdown"
    /\ cmdq' = Tail(cmdq)
    /\ cancelled' = cancelled \cup ShutdownTokens
    /\ coord' = [pc |-> "done", job |-> 0, permit |-> FALSE]
    /\ UNCHANGED <<ceiling, permits, registry, tasks, fetches, evq,
                   emitted>>
    /\ UNCHANGED appVars
    /\ UNCHANGED call

\* An update of the ceiling that cancels what runs above the new ceiling
RecvUpdateConcurrentPreempt ==
    /\ coord.pc = "recv"
    /\ cmdq # <<>>
    /\ Head(cmdq).type = "UpdateConcurrent"
    /\ cmdq' = Tail(cmdq)
    /\ ceiling' = Head(cmdq).n
    /\ permits' = permits + Head(cmdq).n - ceiling
    /\ cancelled' = IF permits' < 0 THEN cancelled \cup ShutdownTokens
                    ELSE cancelled
    /\ UNCHANGED <<coord, registry, tasks, fetches, evq, emitted>>
    /\ UNCHANGED appVars
    /\ UNCHANGED call

\* UpdateConcurrent arm.  WorkerPool::run as it stands in worker/mod.rs has
\* no arm for this command; the arm follows the engine's specification: the
\* pool is resized to n for the jobs started afterwards, the permits held
\* stay with their tasks, no task is cancelled.  permits is the new ceiling
\* less the permits held, below zero while more than n tasks hold one.
RecvUpdateConcurrent ==
    /\ coord.pc = "recv"
    /\ cmdq # <<>>
    /\ Head(cmdq).type = "UpdateConcurrent"
    /\ cmdq' = Tail(cmdq)
    /\ ceiling' = Head(cmdq).n
    /\ permits' = permits + Head(cmdq).n - ceiling
    /\ UNCHANGED <<coord, registry, cancelled, tasks, fetches, evq, emitted>>
    /\ UNCHANGED appVars
    /\ UNCHANGED call

\* ------------------------------------------------------------ formats
\* Format (events.rs:30-76), the fields the engine and the caller look at:
\* vcodec and acodec are Option<String> ("absent" is None), height is
\* Option<u32> (0 is None).
FormatChoices ==
    { [vcodec |-> "none", acodec |-> "mp4a.40.2", height |-> 0],
      [vcodec |-> "avc1", acodec |-> "none", height |-> 720],
      [vcodec |-> "avc1", acodec |-> "mp4a.40.2", height |-> 0],
      [vcodec |-> "absent", acodec |-> "absent", height |-> 0] }

\* The format lists the tool may answer with
ToolLists ==
    UNION { [1..n -> FormatChoices] : n \in 0..MaxFormats }

\* Format::is_video, Format::is_audio_only (events.rs:70-76)
\* An is_video that takes a format without video codec for a video
IsVideoDefaultTrue(f) == IF f.vcodec = "absent" THEN TRUE ELSE f.vcodec # "none"

\* vcodec.as_ref().map(|v| v != "none").unwrap_or(false)
IsVideo(f) == IF f.vcodec = "absent" THEN FALSE ELSE f.vcodec # "none"

IsAudioOnly(f) ==
    ~IsVideo(f) /\ (IF f.acodec = "absent" THEN FALSE ELSE f.acodec # "none")

\* The filter of fetch_formats (ytdlp.rs:48-55)
KeepFormat(f) == IsVideo(f) /\ f.height # 0

FilterFormats(fs) == SelectSeq(fs, KeepFormat)

\* ------------------------------------------------------------ fetch task
\* The task spawned for FetchFormats (mod.rs:44-53) running fetch_formats
\* (ytdlp.rs:20-66).  Spawn error and unparsable output return Err and the
\* wrapper sends JobFailed; a non-zero exit sends JobFailed inside
\* fetch_formats and returns Ok; success sends FormatsReady and returns Ok.
FetchOutcomes == {"spawn_error", "nonzero_exit", "parse_error", "success"}

FormatsReadyEvent(j, fs) == [type |-> "FormatsReady", job |-> j, formats |-> fs]

\* ytdlp.rs:25-55: the tool is run once; its outcome decides what follows
FetchInvoke(f, outcome, raw) ==
    /\ fetches[f].pc = "run"
    /\ fetches' = [fetches EXCEPT ![f] =
         CASE outcome \in {"spawn_error", "parse_error"} ->
                [@ EXCEPT !.pc = "wrapper", !.ret = "err", !.invoked = @ + 1]
           [] outcome = "nonzero_exit" ->
                [@ EXCEPT !.pc = "send_failed", !.invoked = @ + 1]
           [] OTHER ->
                [@ EXCEPT !.pc = "send_ready", !.invoked = @ + 1,
                          !.raw = raw, !.formats = FilterFormats(raw)]]
    /\ UNCHANGED <<ceiling, permits, cmdq, coord, registry, cancelled,
                   tasks, evq, emitted>>
    /\ UNCHANGED appVars
    /\ UNCHANGED call

\* A fetch_formats that returns Err after it has reported the failure itself
FetchSendInnerThenErr(f) ==
    /\ fetches[f].pc \in {"send_failed", "send_ready"}
    /\ Len(evq) < EvCap
    /\ evq' = Append(evq,
                IF fetches[f].pc = "send_ready"
                THEN FormatsReadyEvent(fetches[f].job, fetches[f].formats)
                ELSE FailedEvent(fetches[f].job, "tool stderr"))
    /\ fetches' = [fetches EXCEPT ![f] =
                     [@ EXCEPT !.pc = "wrapper", !.ret = "err", !.sent = @ + 1,
                               !.raw = <<>>, !.formats = <<>>]]
    /\ UNCHANGED <<ceiling, permits, cmdq, coord, registry, cancelled,
                   tasks, emitted>>
    /\ UNCHANGED appVars
    /\ UNCHANGED call

\* ytdlp.rs:35-41 and 57-65: the send inside fetch_formats, which then
\* returns Ok(()), so that the wrapper's `if let Err` does nothing
FetchSendInner(f) ==
    /\ fetches[f].pc \in {"send_failed", "send_ready"}
    /\ Len(evq) < EvCap
    /\ evq' = Append(evq,
                IF fetches[f].pc = "send_ready"
                THEN FormatsReadyEvent(fetches[f].job, fetches[f].formats)
                ELSE FailedEvent(fetches[f].job, "tool stderr"))
    /\ fetches' = [fetches EXCEPT ![f] =
                     [@ EXCEPT !.pc = "done", !.ret = "ok", !.sent = @ + 1,
                               !.raw = <<>>, !.formats = <<>>]]
    /\ UNCHANGED <<ceiling, permits, cmdq, coord, registry, cancelled,
                   tasks, emitted>>
    /\ UNCHANGED appVars
    /\ UNCHANGED call

\* mod.rs:45-52: fetch_formats returned Err; the wrapper sends JobFailed
FetchWrapper(f) ==
    /\ fetches[f].pc = "wrapper"
    /\ Len(evq) < EvCap
    /\ evq' = Append(evq, FailedEvent(fetches[f].job, "fetch error"))
    /\ fetches' = [fetches EXCEPT ![f] = [@ EXCEPT !.pc = "done", !.sent = @ + 1]]
    /\ UNCHANGED <<ceiling, permits, cmdq, coord, registry, cancelled,
                   tasks, emitted>>
    /\ UNCHANGED appVars
    /\ UNCHANGED call

\* ------------------------------------------------------------ playlists
\* WorkerCommand::FetchPlaylist (events.rs:181) and AppEvent::PlaylistExpanded
\* (events.rs:175) are declared, sent (app.rs:53) and handled (app.rs:357),
\* but WorkerPool::run as it stands in worker/mod.rs has no arm for the
\* command.  The arm is taken to be what the two declarations say and what
\* the FetchFormats arm does: a task is spawned that sends one
\* PlaylistExpanded for the command.
PlaylistExpandedEvent == [type |-> "PlaylistExpanded", job |-> 0]

RecvFetchPlaylist ==
    /\ coord.pc = "recv"
    /\ cmdq # <<>>
    /\ Head(cmdq).type = "FetchPlaylist"
    /\ cmdq' = Tail(cmdq)
    /\ fetches' = Append(fetches, [NewFetch(0) EXCEPT !.pc = "expand"])
    /\ UNCHANGED <<ceiling, permits, coord, registry, cancelled, tasks,
                   evq, emitted>>
    /\ UNCHANGED appVars
    /\ UNCHANGED call

PlaylistSend(f) ==
    /\ fetches[f].pc = "expand"
    /\ Len(evq) < EvCap
    /\ evq' = Append(evq, PlaylistExpandedEvent)
    /\ fetches' = [fetches EXCEPT ![f] = [@ EXCEPT !.pc = "done", !.sent = @ + 1]]
    /\ UNCHANGED <<ceiling, permits, cmdq, coord, registry, cancelled,
                   tasks, emitted>>
    /\ UNCHANGED appVars
    /\ UNCHANGED call

\* ------------------------------------------------------------ output lines
\* A line of the tool's output is the sequence of its whitespace-delimited
\* tokens (str::split_whitespace), and a token is a sequence of pieces of
\* text.  The pieces are such that none of the texts the code looks for
\* ("[download]", "%", "/s", "ETA", "/", a leading "[") lies across two
\* pieces, and a token has at most one numeric piece.  Option values are
\* sequences: <<>> is None and <<v>> is Some(v).
NumberPieces == {"42.0", "100"}

SlashPieces == {"/s", "/tmp/a.mp4", "/tmp/b.mp4"}

BracketPieces == {"[download]", "[info]"}

Tokens ==
    { <<"[download]">>, <<"42.0", "%">>, <<"x", "%">>, <<"100", "%", "%">>,
      <<"%">>, <<"42.0", "%", "x">>, <<"1.20MiB", "/s">>, <<"ETA">>,
      <<"00:07">>, <<"x", "ETA", "00:07">> }

\* A progress line as the tool prints it, and a line that is no progress
ExampleLine ==
    << <<"[download]">>, <<"42.0", "%">>, <<"of">>, <<"10.00MiB">>, <<"at">>,
       <<"1.20MiB", "/s">>, <<"ETA">>, <<"00:07">> >>

InfoLine == << <<"[info]">>, <<"Extracting">>, <<"URL">> >>

Lines ==
    UNION { [1..n -> Tokens] : n \in 0..MaxTokens } \cup {ExampleLine, InfoLine}

\* str::contains on a token and on a line, for a text that is a piece
TokenContains(tok, pieces) == \E i \in 1..Len(tok) : tok[i] \in pieces

LineContains(line, pieces) ==
    \E i \in 1..Len(line) : TokenContains(line[i], pieces)

\* str::ends_with('%')
EndsWithPercent(tok) == tok # <<>> /\ tok[Len(tok)] = "%"

\* str::trim_end_matches('%'): every trailing "%" is taken off
RECURSIVE TrimEndPercent(_)
TrimEndPercent(tok) ==
    IF EndsWithPercent(tok) THEN TrimEndPercent(SubSeq(tok, 1, Len(tok) - 1))
    ELSE tok

\* str::parse::<f32>().ok(): the text of a token is a number exactly when
\* the token is one numeric piece
ParseF32(tok) ==
    IF Len(tok) = 1 /\ tok[1] \in NumberPieces
    THEN <<IF tok[1] = "42.0" THEN 42 ELSE 100>>
    ELSE <<>>

\* Iterator::find: the first element that satisfies the test
Find(seq, Test(_)) ==
    IF SelectSeq(seq, Test) = <<>> THEN <<>> ELSE <<Head(SelectSeq(seq, Test))>>

\* A search that skips the percent tokens that are not numbers
PercentTokenParsable(line) ==
    Find(line, LAMBDA tok : EndsWithPercent(tok) /\ ParseF32(TrimEndPercent(tok)) # <<>>)

\* ytdlp.rs:148-150: line.split_whitespace().find(|s| s.ends_with('%'))
PercentToken(line) == Find(line, EndsWithPercent)

\* ytdlp.rs:155-159: the first token that contains "/s", or "--"
SpeedOf(line) ==
    IF Find(line, LAMBDA tok : TokenContains(tok, {"/s"})) = <<>> THEN <<"--">>
    ELSE Find(line, LAMBDA tok : TokenContains(tok, {"/s"}))[1]

\* The index of the first token with "ETA" in it (0: none), and the place of
\* "ETA" in that token: line.find("ETA") (ytdlp.rs:161)
EtaTokenIndex(line) ==
    IF LineContains(line, {"ETA"})
    THEN CHOOSE i \in 1..Len(line) :
            /\ TokenContains(line[i], {"ETA"})
            /\ \A k \in 1..(i - 1) : ~TokenContains(line[k], {"ETA"})
    ELSE 0

EtaPieceIndex(tok) ==
    CHOOSE i \in 1..Len(tok) : tok[i] = "ETA" /\ \A k \in 1..(i - 1) : tok[k] # "ETA"

\* An ETA that is the token after the first token with "ETA" in it
EtaOfNextToken(line) ==
    IF EtaTokenIndex(line) = 0 \/ EtaTokenIndex(line) = Len(line) THEN <<"--">>
    ELSE line[EtaTokenIndex(line) + 1]

\* ytdlp.rs:161-169: line[idx + 3..].split_whitespace().next(): what is left
\* of the token after "ETA" if there is something left, the next token
\* otherwise, "--" if there is neither or no "ETA"
EtaOf(line) ==
    IF EtaTokenIndex(line) = 0 THEN <<"--">>
    ELSE LET tok == line[EtaTokenIndex(line)]
             rest == SubSeq(tok, EtaPieceIndex(tok) + 1, Len(tok))
         IN  IF rest # <<>> THEN rest
             ELSE IF EtaTokenIndex(line) < Len(line)
                  THEN line[EtaTokenIndex(line) + 1]
                  ELSE <<"--">>

\* parse_progress (ytdlp.rs:143-172)
ParseProgress(line) ==
    IF ~LineContains(line, {"[download]"}) \/ ~LineContains(line, {"%"}) THEN <<>>
    ELSE IF PercentToken(line) = <<>> THEN <<>>
    ELSE IF ParseF32(TrimEndPercent(PercentToken(line)[1])) = <<>> THEN <<>>
    ELSE << [percent |-> ParseF32(TrimEndPercent(PercentToken(line)[1]))[1],
             speed |-> SpeedOf(line),
             eta |-> EtaOf(line)] >>

\* str::starts_with('[') and str::contains('/') on a line (ytdlp.rs:112)
StartsWithBracket(line) == line # <<>> /\ line[1][1] \in BracketPieces

ContainsSlash(line) == LineContains(line, SlashPieces)

\* The lines the read loop is run on
ReadLines ==
    { << <<"[download]">>, <<"42.0", "%">> >>,
      << <<"/tmp/a.mp4">> >>,
      << <<"/tmp/b.mp4">> >>,
      << <<"[info]">>, <<"/tmp/a.mp4">> >>,
      << <<"42.0", "%">>, <<"[download]">>, <<"/tmp/b.mp4">> >>,
      << <<"Deleting">>, <<"original">> >> }

\* A loop body that tests for a path whether or not the line was progress
ReadLineNoElse(st, line) ==
    [sent |-> IF ParseProgress(line) # <<>> THEN st.sent + 1 ELSE st.sent,
     path |-> IF ~StartsWithBracket(line) /\ ContainsSlash(line)
              THEN <<line>> ELSE st.path]

\* ytdlp.rs:104-115, the body of the loop for one line: st is the number of
\* JobProgress events sent and final_path
ReadLine(st, line) ==
    IF ParseProgress(line) # <<>> THEN [st EXCEPT !.sent = @ + 1]
    ELSE IF ~StartsWithBracket(line) /\ ContainsSlash(line)
         THEN [st EXCEPT !.path = <<line>>]
         ELSE st

\* ------------------------------------------------------------ functions run on their own
\* The functions of the program that depend on their arguments only, each
\* run once on an input: call holds the input and then the result.
AllFormats ==
    [vcodec : {"absent", "none", "avc1"}, acodec : {"absent", "none", "mp4a.40.2"},
     height : {0, 720}]

CallOf(fn, arg) == [NoCall EXCEPT !.fn = fn, !.arg = arg]

\* Format::is_video and Format::is_audio_only on call.arg
CallClassify ==
    /\ call.fn = "classify"
    /\ ~call.done
    /\ call' = [call EXCEPT !.done = TRUE,
                            !.ret = [video |-> IsVideo(call.arg),
                                     audio_only |-> IsAudioOnly(call.arg)]]
    /\ UNCHANGED programVars

\* parse_progress on call.arg
CallParseProgress ==
    /\ call.fn = "parse_progress"
    /\ ~call.done
    /\ call' = [call EXCEPT !.done = TRUE, !.ret = ParseProgress(call.arg)]
    /\ UNCHANGED programVars

\* One turn of the read loop of download with the next line of call.arg
CallReadLine ==
    /\ call.fn = "read_loop"
    /\ ~call.done
    /\ call.pos < Len(call.arg)
    /\ call' = [call EXCEPT
                  !.pos = @ + 1,
                  !.sent = ReadLine([sent |-> call.sent, path |-> call.path],
                                    call.arg[call.pos + 1]).sent,
                  !.path = ReadLine([sent |-> call.sent, path |-> call.path],
                                    call.arg[call.pos + 1]).path]
    /\ UNCHANGED programVars

\* End of stream, zero exit: download returns final_path.ok_or_else(..)
\* (ytdlp.rs:117, 133), the path of JobCompleted
CallReadEnd ==
    /\ call.fn = "read_loop"
    /\ ~call.done
    /\ call.pos = Len(call.arg)
    /\ call' = [call EXCEPT !.done = TRUE, !.ret = call.path]
    /\ UNCHANGED programVars

\* ------------------------------------------------------------ download task
\* event_tx.send(ev).await by task t: completes when the channel has room
SendEvent(t, ty) ==
    /\ Len(evq) < EvCap
    /\ evq' = Append(evq, IF ty = "JobFailed"
                          THEN FailedEvent(tasks[t].job, ErrorText(tasks[t].result))
                          ELSE Event(ty, tasks[t].job))
    /\ emitted' = [emitted EXCEPT ![tasks[t].job] = Append(@, Emit(ty, t))]

\* download returns (ytdlp.rs:90, 100-101, 127-133): its locals (the child
\* handle, the reader, final_path) are dropped and the task keeps the result
Returned(task, result) ==
    [task EXCEPT !.pc = "term", !.child = "none", !.lines = 0, !.path = FALSE,
                 !.result = result]

\* mod.rs:77: the task's first act is to send JobStarted
TaskSendStarted(t) ==
    /\ tasks[t].pc = "start"
    /\ SendEvent(t, "JobStarted")
    /\ tasks' = [tasks EXCEPT ![t].pc = "spawn"]
    /\ UNCHANGED <<ceiling, permits, cmdq, coord, registry, cancelled,
                   fetches>>
    /\ UNCHANGED appVars
    /\ UNCHANGED call

\* ytdlp.rs:77-90: Command::spawn()? either starts the subprocess or fails
TaskSpawnChild(t, ok) ==
    /\ tasks[t].pc = "spawn"
    /\ tasks' = [tasks EXCEPT ![t] =
                   IF ok THEN [@ EXCEPT !.pc = "loop", !.child = "running"]
                   ELSE Returned(@, "spawn_error")]
    /\ UNCHANGED <<ceiling, permits, cmdq, coord, registry, cancelled,
                   fetches, evq, emitted>>
    /\ UNCHANGED appVars
    /\ UNCHANGED call

\* ytdlp.rs:99-102: the select! takes the cancelled() branch; child.kill()
\* either kills the subprocess or fails, and the driver returns Err either way
TaskSelectCancelled(t, killed) ==
    /\ tasks[t].pc = "loop"
    /\ t \in cancelled
    /\ tasks' = [tasks EXCEPT ![t] =
                   Returned(@, IF killed THEN "cancelled" ELSE "kill_error")]
    /\ UNCHANGED <<ceiling, permits, cmdq, coord, registry, cancelled,
                   fetches, evq, emitted>>
    /\ UNCHANGED appVars
    /\ UNCHANGED call

\* ytdlp.rs:103-116: the select! takes the next_line() branch with a line.
\* kind is what the line is: one parse_progress decodes, a bare path, or other.
LineKinds == {"progress", "path", "other"}

TaskReadLine(t, kind) ==
    /\ tasks[t].pc = "loop"
    /\ tasks[t].lines < MaxLines
    /\ tasks' = [tasks EXCEPT ![t] =
                   CASE kind = "progress" ->
                          [@ EXCEPT !.lines = @ + 1, !.pc = "progress"]
                     [] kind = "path" ->
                          [@ EXCEPT !.lines = @ + 1, !.path = TRUE]
                     [] OTHER -> [@ EXCEPT !.lines = @ + 1]]
    /\ UNCHANGED <<ceiling, permits, cmdq, coord, registry, cancelled,
                   fetches, evq, emitted>>
    /\ UNCHANGED appVars
    /\ UNCHANGED call

\* ytdlp.rs:107-112: the JobProgress send inside the next_line() branch
TaskSendProgress(t) ==
    /\ tasks[t].pc = "progress"
    /\ SendEvent(t, "JobProgress")
    /\ tasks' = [tasks EXCEPT ![t].pc = "loop"]
    /\ UNCHANGED <<ceiling, permits, cmdq, coord, registry, cancelled,
                   fetches>>
    /\ UNCHANGED appVars
    /\ UNCHANGED call

\* ytdlp.rs:117-121: end of stream or a read error leaves the loop
TaskReadEnd(t) ==
    /\ tasks[t].pc = "loop"
    /\ tasks' = [tasks EXCEPT ![t].pc = "wait"]
    /\ UNCHANGED <<ceiling, permits, cmdq, coord, registry, cancelled,
                   fetches, evq, emitted>>
    /\ UNCHANGED appVars
    /\ UNCHANGED call

\* ytdlp.rs:127-133: child.wait()?, the exit status, the captured path
WaitOutcomes == {"wait_error", "nonzero_exit", "zero_exit"}

\* A driver that reports success whenever a path was captured
DownloadResultIgnoreExit(outcome, path) == IF path THEN "ok" ELSE "no_path"

DownloadResult(outcome, path) ==
    CASE outcome = "wait_error" -> "wait_error"
      [] outcome = "nonzero_exit" -> "exit_code"
      [] outcome = "zero_exit" /\ path -> "ok"
      [] OTHER -> "no_path"

\* The task keeps what the result was computed from (the outcome of wait and
\* whether final_path was set) until it has sent its terminal event.
TaskWait(t, outcome) ==
    /\ tasks[t].pc = "wait"
    /\ tasks' = [tasks EXCEPT ![t] =
                   [Returned(@, DownloadResult(outcome, tasks[t].path))
                      EXCEPT !.exit = outcome, !.path = tasks[t].path]]
    /\ UNCHANGED <<ceiling, permits, cmdq, coord, registry, cancelled,
                   fetches, evq, emitted>>
    /\ UNCHANGED appVars
    /\ UNCHANGED call

\* A task that reports every result as a success
TerminalEventAlwaysCompleted(result) == "JobCompleted"

\* mod.rs:88-102: Ok(path) sends JobCompleted, Err(e) sends JobFailed
TerminalEvent(result) == IF result = "ok" THEN "JobCompleted" ELSE "JobFailed"

TaskSendTerminal(t) ==
    /\ tasks[t].pc = "term"
    /\ SendEvent(t, TerminalEvent(tasks[t].result))
    /\ tasks' = [tasks EXCEPT ![t] =
                   [@ EXCEPT !.pc = "remove", !.result = "none",
                             !.exit = "none", !.path = FALSE]]
    /\ UNCHANGED <<ceiling, permits, cmdq, coord, registry, cancelled,
                   fetches>>
    /\ UNCHANGED appVars
    /\ UNCHANGED call

\* A task that ends without removing its registry entry
TaskRemoveSkipped(t) ==
    /\ tasks[t].pc = "remove"
    /\ tasks' = [tasks EXCEPT ![t].pc = "drop"]
    /\ UNCHANGED <<ceiling, permits, cmdq, coord, registry, cancelled, fetches,
                   evq, emitted>>
    /\ UNCHANGED appVars
    /\ UNCHANGED call

\* mod.rs:104-105: active_jobs.lock().await; jobs.remove(&job_id)
TaskRemove(t) ==
    /\ tasks[t].pc = "remove"
    /\ registry' = [registry EXCEPT ![tasks[t].job] = 0]
    /\ tasks' = [tasks EXCEPT ![t].pc = "drop"]
    /\ UNCHANGED <<ceiling, permits, cmdq, coord, cancelled, fetches,
                   evq, emitted>>
    /\ UNCHANGED appVars
    /\ UNCHANGED call

\* A task that ends and keeps its permit
TaskDropPermitKept(t) ==
    /\ tasks[t].pc = "drop"
    /\ tasks' = [tasks EXCEPT ![t] = [@ EXCEPT !.pc = "done", !.permit = FALSE]]
    /\ UNCHANGED <<ceiling, permits, cmdq, coord, registry, cancelled, fetches,
                   evq, emitted>>
    /\ UNCHANGED appVars
    /\ UNCHANGED call

\* mod.rs:106: the task ends; the guard is dropped, then _permit, which
\* returns the permit to the semaphore
TaskDropPermit(t) ==
    /\ tasks[t].pc = "drop"
    /\ permits' = permits + 1
    /\ tasks' = [tasks EXCEPT ![t] = [@ EXCEPT !.pc = "done", !.permit = FALSE]]
    /\ UNCHANGED <<ceiling, cmdq, coord, registry, cancelled, fetches,
                   evq, emitted>>
    /\ UNCHANGED appVars
    /\ UNCHANGED call

\* ------------------------------------------------------------ App
\* App::handle_event (src/src/app.rs:46-368) for the events that touch the
\* jobs and the engine.  A key reaches handle_queue_mode only while no popup
\* is open (ui/input.rs:29-31), so the key-driven handlers but ConfirmFormat
\* are guarded by a closed popup.  Job ids are fresh (Uuid::new_v4): id j is
\* added once.  JobStatus::Failed carries the error text, so that any other
\* status has none.  run_app leaves its loop once should_quit is set
\* (main.rs:132-134): the handlers of the quit dialogue and of the settings
\* popup, which run next to it, are guarded by ~ui.should_quit.  Of App's
\* fields, the input line, the help and system panels and the text of the
\* output directory are left out: no handler of the jobs reads them.

\* worker_tx.try_send of a sequence of commands in order: each is queued
\* when the channel is open and has room, and dropped otherwise
TrySendAll(q, cs) ==
    IF coord.pc = "done" \/ Len(q) >= CmdCap THEN q
    ELSE q \o SubSeq(cs, 1, IF Len(cs) <= CmdCap - Len(q) THEN Len(cs)
                             ELSE CmdCap - Len(q))

\* Job::can_select_format (events.rs:227-229)
CanSelectFormat(job) == job.status \in {"Ready", "Queued"} /\ job.formats # <<>>

\* App.jobs as the Vec it is: the ids of its jobs in the order they were
\* pushed, which is the order of the ids
JobList == SelectSeq([i \in 1..NumJobs |-> i], LAMBDA j : InJobs(j))

\* App::selected_job (app.rs:372-374): the id at selected_index, 0 for None
SelectedJob ==
    IF ui.selected_index < Len(JobList) THEN JobList[ui.selected_index + 1] ELSE 0

\* The ids no Job was created with yet; Uuid::new_v4 gives the lowest
FreshIds == {j \in JobIds : jobs[j].status = "Absent"}

\* app.rs:48-66, the branch of a single url
AppAddUrl(j) ==
    /\ popup.job = 0
    /\ jobs[j].status = "Absent"
    /\ \A i \in 1..(j - 1) : jobs[i].status # "Absent"
    /\ jobs' = [jobs EXCEPT ![j] = NewJob]
    /\ cmdq' = TrySendAll(cmdq, <<FetchFormatsCmd(j)>>)
    /\ UNCHANGED <<ceiling, permits, coord, registry, cancelled, tasks,
                   fetches, evq, emitted, popup, cancelReq, ui>>
    /\ UNCHANGED call

\* app.rs:48-56, the branch of a playlist url: loading_playlists += 1, then
\* try_send(FetchPlaylist).  The model stops the caller after MaxPlaylists
\* playlist urls.
AppAddPlaylistUrl ==
    /\ popup.job = 0
    /\ ui.loading_playlists + ui.answered < MaxPlaylists
    /\ cmdq' = TrySendAll(cmdq, <<FetchPlaylistCmd>>)
    /\ ui' = [ui EXCEPT !.loading_playlists = @ + 1,
                        !.placed = @ + (Len(cmdq') - Len(cmdq))]
    /\ UNCHANGED <<ceiling, permits, coord, registry, cancelled, tasks,
                   fetches, evq, emitted, jobs, popup, cancelReq>>
    /\ UNCHANGED call

\* app.rs:72-76
AppSelectNext ==
    /\ popup.job = 0
    /\ JobList # <<>>
    /\ ui' = [ui EXCEPT !.selected_index = (@ + 1) % Len(JobList)]
    /\ UNCHANGED <<ceiling, permits, cmdq, coord, registry, cancelled, tasks,
                   fetches, evq, emitted, jobs, popup, cancelReq>>
    /\ UNCHANGED call

\* app.rs:78-86
AppSelectPrev ==
    /\ popup.job = 0
    /\ JobList # <<>>
    /\ ui' = [ui EXCEPT !.selected_index =
                          IF @ = 0 THEN Len(JobList) - 1 ELSE @ - 1]
    /\ UNCHANGED <<ceiling, permits, cmdq, coord, registry, cancelled, tasks,
                   fetches, evq, emitted, jobs, popup, cancelReq>>
    /\ UNCHANGED call

\* Enter in the queue (ui/input.rs:93-100) and app.rs:88-97
AppOpenFormatPopup(j) ==
    /\ popup.job = 0
    /\ CanSelectFormat(jobs[j])
    /\ popup' = NewPopup(j, jobs[j].formats)
    /\ UNCHANGED <<ceiling, permits, cmdq, coord, registry, cancelled, tasks,
                   fetches, evq, emitted, jobs, cancelReq, ui>>
    /\ UNCHANGED call

\* FormatPopupState::filtered_formats (events.rs:101-112)
FilteredFormats(fs, audio_only) ==
    SelectSeq(fs, LAMBDA f : IF audio_only THEN IsAudioOnly(f) ELSE IsVideo(f))

\* FormatPopupState::selected_format (events.rs:114-116): <<>> for None
SelectedFormat(p) ==
    IF p.selected < Len(FilteredFormats(p.formats, p.audio_only))
    THEN <<FilteredFormats(p.formats, p.audio_only)[p.selected + 1]>>
    ELSE <<>>

\* app.rs:99-101
AppCloseFormatPopup ==
    /\ popup.job # 0
    /\ popup' = NoPopup
    /\ UNCHANGED <<ceiling, permits, cmdq, coord, registry, cancelled, tasks,
                   fetches, evq, emitted, jobs, cancelReq, ui>>
    /\ UNCHANGED call

\* The rows of the popup the renderer shows (app.rs:108)
VisibleHeight == 10

\* A step down the list that does not wrap around
FormatNextNoWrap(p) ==
    [p EXCEPT !.selected = @ + 1]

\* app.rs:105-114 for a filtered list that is not empty
FormatNext(p) ==
    LET sel == (p.selected + 1) % Len(FilteredFormats(p.formats, p.audio_only))
    IN [p EXCEPT !.selected = sel,
                 !.scroll_offset =
                    IF sel >= @ + VisibleHeight
                    THEN (IF sel >= VisibleHeight - 1
                          THEN sel - (VisibleHeight - 1) ELSE 0)
                    ELSE IF sel < @ THEN sel ELSE @]

\* app.rs:103-116
AppFormatSelectNext ==
    /\ popup.job # 0
    /\ FilteredFormats(popup.formats, popup.audio_only) # <<>>
    /\ popup' = FormatNext(popup)
    /\ UNCHANGED <<ceiling, permits, cmdq, coord, registry, cancelled, tasks,
                   fetches, evq, emitted, jobs, cancelReq, ui>>
    /\ UNCHANGED call

\* app.rs:118-132
AppFormatSelectPrev ==
    /\ popup.job # 0
    /\ FilteredFormats(popup.formats, popup.audio_only) # <<>>
    /\ LET sel == IF popup.selected = 0
                  THEN Len(FilteredFormats(popup.formats, popup.audio_only)) - 1
                  ELSE popup.selected - 1
       IN popup' = [popup EXCEPT !.selected = sel,
                                 !.scroll_offset = IF sel < @ THEN sel ELSE @]
    /\ UNCHANGED <<ceiling, permits, cmdq, coord, registry, cancelled, tasks,
                   fetches, evq, emitted, jobs, cancelReq, ui>>
    /\ UNCHANGED call

\* app.rs:134-140
AppToggleAudioOnly ==
    /\ popup.job # 0
    /\ popup' = [popup EXCEPT !.audio_only = ~@, !.selected = 0,
                              !.scroll_offset = 0]
    /\ UNCHANGED <<ceiling, permits, cmdq, coord, registry, cancelled, tasks,
                   fetches, evq, emitted, jobs, cancelReq, ui>>
    /\ UNCHANGED call

\* app.rs:142-146
AppToggleApplyToAll ==
    /\ popup.job # 0
    /\ popup' = [popup EXCEPT !.apply_to_all = ~@]
    /\ UNCHANGED <<ceiling, permits, cmdq, coord, registry, cancelled, tasks,
                   fetches, evq, emitted, jobs, cancelReq, ui>>
    /\ UNCHANGED call

\* A ConfirmFormat that queues the job of the popup whatever is selected
ConfirmedJobsUnchecked(p) ==
    [jobs EXCEPT ![p.job] = [@ EXCEPT !.selected = TRUE, !.status = "Queued",
                                      !.error = ""]]

\* app.rs:153-167: the jobs after ConfirmFormat on popup p
ConfirmedJobs(p) ==
         IF SelectedFormat(p) = <<>> THEN jobs
         ELSE IF p.apply_to_all
              THEN [j \in JobIds |->
                      IF CanSelectFormat(jobs[j])
                      THEN [jobs[j] EXCEPT !.selected = TRUE, !.status = "Queued",
                                           !.error = ""]
                      ELSE jobs[j]]
              ELSE [jobs EXCEPT ![p.job] =
                      [@ EXCEPT !.selected = TRUE, !.status = "Queued",
                                !.error = ""]]

\* app.rs:148-168: format_popup.take(), then the jobs are updated from it
AppConfirmFormat ==
    /\ popup.job # 0
    /\ popup' = NoPopup
    /\ jobs' = ConfirmedJobs(popup)
    /\ UNCHANGED <<ceiling, permits, cmdq, coord, registry, cancelled, tasks,
                   fetches, evq, emitted, cancelReq, ui>>
    /\ UNCHANGED call

\* The jobs StartDownloads sends a StartJob for, in the order of App.jobs
RECURSIVE QueuedFrom(_)
QueuedFrom(j) ==
    IF j > NumJobs THEN <<>>
    ELSE (IF jobs[j].status = "Queued" /\ jobs[j].selected
          THEN <<StartJobCmd(j)>> ELSE <<>>) \o QueuedFrom(j + 1)

\* app.rs:170-184: the status of the jobs is left as it is.  The model stops
\* the caller once MaxTasks StartJob commands have been sent.
AppStartDownloads ==
    /\ popup.job = 0
    /\ QueuedFrom(1) # <<>>
    /\ cmdq' = TrySendAll(cmdq, QueuedFrom(1))
    /\ PendingStarts + (Len(cmdq') - Len(cmdq)) <= MaxTasks
    /\ UNCHANGED <<ceiling, permits, coord, registry, cancelled, tasks,
                   fetches, evq, emitted>>
    /\ UNCHANGED appVars
    /\ UNCHANGED call

\* 'c' in the queue (ui/input.rs:103) and app.rs:186-193
AppCancelJob(j) ==
    /\ popup.job = 0
    /\ InJobs(j)
    /\ cmdq' = TrySendAll(cmdq, <<CancelJobCmd(j)>>)
    /\ jobs' = [jobs EXCEPT ![j] = [@ EXCEPT !.status = "Cancelled", !.error = ""]]
    /\ cancelReq' = IF jobs[j].status = "Downloading" /\ Len(cmdq') > Len(cmdq)
                    THEN cancelReq \cup {j} ELSE cancelReq
    /\ UNCHANGED <<ceiling, permits, coord, registry, cancelled, tasks,
                   fetches, evq, emitted, popup, ui>>
    /\ UNCHANGED call

\* 'd' in the queue (ui/input.rs:102) and app.rs:195-200: the Job with the
\* id is taken out of App.jobs and the selection is clamped to the list that
\* is left; nothing is sent to the engine

\* A selection that stays where it was when a job is removed
ClampSelectedNoClamp(index, len) == index

\* app.rs:197-199 with the length of App.jobs after retain
ClampSelected(index, len) ==
    IF index >= len /\ len # 0 THEN len - 1 ELSE index

AppRemoveJob(j) ==
    /\ popup.job = 0
    /\ InJobs(j)
    /\ jobs' = [jobs EXCEPT ![j] = RemovedJob]
    /\ ui' = [ui EXCEPT !.selected_index = ClampSelected(@, Len(JobList) - 1)]
    /\ UNCHANGED <<ceiling, permits, cmdq, coord, registry, cancelled, tasks,
                   fetches, evq, emitted, popup, cancelReq>>
    /\ UNCHANGED call

\* A fold of FormatsReady that takes an empty list for a result
FoldFormatsReadyUnchecked(job, fs) ==
    [job EXCEPT !.formats = fs, !.status = "Ready", !.error = ""]

\* app.rs:239-249
FoldFormatsReady(job, fs) ==
    IF fs = <<>>
    THEN [job EXCEPT !.status = "Failed", !.error = "No formats found"]
    ELSE [job EXCEPT !.formats = fs, !.status = "Ready", !.error = ""]

\* A fold that takes a failed job out of App.jobs
FoldDroppingFailed(job, e) ==
    CASE e.type = "JobStarted" -> [job EXCEPT !.status = "Downloading", !.error = ""]
      [] e.type = "FormatsReady" -> FoldFormatsReady(job, e.formats)
      [] e.type = "JobProgress" -> [job EXCEPT !.status = "Downloading", !.error = ""]
      [] e.type = "JobCompleted" -> [job EXCEPT !.status = "Completed", !.error = ""]
      [] e.type = "JobFailed" -> RemovedJob

\* app.rs:228-268: what an engine event does to the job it names
Fold(job, e) ==
    CASE e.type = "JobStarted" -> [job EXCEPT !.status = "Downloading", !.error = ""]
      [] e.type = "FormatsReady" -> FoldFormatsReady(job, e.formats)
      [] e.type = "JobProgress" -> [job EXCEPT !.status = "Downloading", !.error = ""]
      [] e.type = "JobCompleted" -> [job EXCEPT !.status = "Completed", !.error = ""]
      [] e.type = "JobFailed" -> [job EXCEPT !.status = "Failed", !.error = e.error]

\* run_app takes the next event off the outbound channel and hands it to
\* handle_event (main.rs:117-119); an event for an id not in App.jobs is
\* dropped (the `if let Some(job)` of each arm)
AppFold ==
    /\ evq # <<>>
    /\ Head(evq).type # "PlaylistExpanded"
    /\ evq' = Tail(evq)
    /\ jobs' = IF ~InJobs(Head(evq).job) THEN jobs
               ELSE [jobs EXCEPT ![Head(evq).job] = Fold(@, Head(evq))]
    /\ UNCHANGED <<ceiling, permits, cmdq, coord, registry, cancelled,
                   tasks, fetches, emitted, popup, cancelReq, ui>>
    /\ UNCHANGED call

\* app.rs:357-368: run_app hands PlaylistExpanded { urls } to handle_event,
\* with n urls; one Job is pushed and one FetchFormats tried for each
AppPlaylistExpanded(n) ==
    /\ evq # <<>>
    /\ Head(evq).type = "PlaylistExpanded"
    /\ n <= Cardinality(FreshIds)
    /\ evq' = Tail(evq)
    /\ ui' = [ui EXCEPT !.loading_playlists = IF @ = 0 THEN 0 ELSE @ - 1,
                        !.answered = @ + 1]
    /\ jobs' = [j \in JobIds |->
                  IF j \in FreshIds /\ j < NumJobs + 1 - Cardinality(FreshIds) + n
                  THEN NewJob ELSE jobs[j]]
    /\ cmdq' = TrySendAll(cmdq,
                 [i \in 1..n |->
                    FetchFormatsCmd(NumJobs - Cardinality(FreshIds) + i)])
    /\ UNCHANGED <<ceiling, permits, coord, registry, cancelled, tasks,
                   fetches, emitted, popup, cancelReq>>
    /\ UNCHANGED call

\* app.rs:210-217
AppQuit ==
    /\ ~ui.should_quit
    /\ cmdq' = IF ui.confirm_quit THEN TrySendAll(cmdq, <<ShutdownCmd>>) ELSE cmdq
    /\ ui' = IF ~ui.confirm_quit
             THEN [ui EXCEPT !.confirm_quit = TRUE, !.last = "Quit"]
             ELSE [ui EXCEPT !.should_quit = TRUE, !.offered = @ + 1,
                             !.last = "Quit"]
    /\ UNCHANGED <<ceiling, permits, coord, registry, cancelled, tasks,
                   fetches, evq, emitted, jobs, popup, cancelReq>>
    /\ UNCHANGED call

\* app.rs:219-221
AppCancelQuit ==
    /\ ~ui.should_quit
    /\ ui' = [ui EXCEPT !.confirm_quit = FALSE, !.last = "CancelQuit"]
    /\ UNCHANGED <<ceiling, permits, cmdq, coord, registry, cancelled, tasks,
                   fetches, evq, emitted, jobs, popup, cancelReq>>
    /\ UNCHANGED call

\* A ConfirmQuit that quits without telling the engine
AppConfirmQuitSilent ==
    /\ ~ui.should_quit
    /\ ui' = [ui EXCEPT !.should_quit = TRUE, !.last = "ConfirmQuit"]
    /\ UNCHANGED <<ceiling, permits, cmdq, coord, registry, cancelled, tasks,
                   fetches, evq, emitted, jobs, popup, cancelReq>>
    /\ UNCHANGED call

\* app.rs:223-226
AppConfirmQuit ==
    /\ ~ui.should_quit
    /\ cmdq' = TrySendAll(cmdq, <<ShutdownCmd>>)
    /\ ui' = [ui EXCEPT !.should_quit = TRUE, !.offered = @ + 1,
                        !.last = "ConfirmQuit"]
    /\ UNCHANGED <<ceiling, permits, coord, registry, cancelled, tasks,
                   fetches, evq, emitted, jobs, popup, cancelReq>>
    /\ UNCHANGED call

\* app.rs:270-279
AppToggleSettings ==
    /\ ~ui.should_quit
    /\ ui' = [ui EXCEPT !.settings_popup =
                          IF @.open THEN NoSettings
                          ELSE NewSettings(ui.max_concurrent_downloads)]
    /\ UNCHANGED <<ceiling, permits, cmdq, coord, registry, cancelled, tasks,
                   fetches, evq, emitted, jobs, popup, cancelReq>>
    /\ UNCHANGED call

\* app.rs:281-283
AppCloseSettings ==
    /\ ~ui.should_quit
    /\ ui.settings_popup.open
    /\ ui' = [ui EXCEPT !.settings_popup = NoSettings, !.last = "CloseSettings"]
    /\ UNCHANGED <<ceiling, permits, cmdq, coord, registry, cancelled, tasks,
                   fetches, evq, emitted, jobs, popup, cancelReq>>
    /\ UNCHANGED call

\* app.rs:285-290
AppSettingsNext ==
    /\ ~ui.should_quit
    /\ ui.settings_popup.open
    /\ ui' = [ui EXCEPT !.settings_popup.selected_field =
                          IF @ + 1 < 1 THEN @ + 1 ELSE 1,
                        !.settings_popup.editing_path = FALSE]
    /\ UNCHANGED <<ceiling, permits, cmdq, coord, registry, cancelled, tasks,
                   fetches, evq, emitted, jobs, popup, cancelReq>>
    /\ UNCHANGED call

\* app.rs:292-297
AppSettingsPrev ==
    /\ ~ui.should_quit
    /\ ui.settings_popup.open
    /\ ui' = [ui EXCEPT !.settings_popup.selected_field =
                          IF @ = 0 THEN 0 ELSE @ - 1,
                        !.settings_popup.editing_path = FALSE]
    /\ UNCHANGED <<ceiling, permits, cmdq, coord, registry, cancelled, tasks,
                   fetches, evq, emitted, jobs, popup, cancelReq>>
    /\ UNCHANGED call

\* The bounds of the two clamps (app.rs:302, app.rs:310)
SettingsMax == 10
SettingsMin == 1

\* app.rs:299-305
AppSettingsIncrement ==
    /\ ~ui.should_quit
    /\ ui.settings_popup.open
    /\ ui' = [ui EXCEPT !.settings_popup.concurrent_downloads =
                          IF ui.settings_popup.selected_field # 0 THEN @
                          ELSE IF @ + 1 < SettingsMax THEN @ + 1 ELSE SettingsMax]
    /\ UNCHANGED <<ceiling, permits, cmdq, coord, registry, cancelled, tasks,
                   fetches, evq, emitted, jobs, popup, cancelReq>>
    /\ UNCHANGED call

\* app.rs:307-313: saturating_sub(1), then max(1)
AppSettingsDecrement ==
    /\ ~ui.should_quit
    /\ ui.settings_popup.open
    /\ ui' = [ui EXCEPT !.settings_popup.concurrent_downloads =
                          IF ui.settings_popup.selected_field # 0 THEN @
                          ELSE IF (IF @ = 0 THEN 0 ELSE @ - 1) > SettingsMin
                               THEN @ - 1 ELSE SettingsMin]
    /\ UNCHANGED <<ceiling, permits, cmdq, coord, registry, cancelled, tasks,
                   fetches, evq, emitted, jobs, popup, cancelReq>>
    /\ UNCHANGED call

\* app.rs:315-321
AppSettingsToggleEdit ==
    /\ ~ui.should_quit
    /\ ui.settings_popup.open
    /\ ui' = [ui EXCEPT !.settings_popup.editing_path =
                          IF ui.settings_popup.selected_field = 1 THEN ~@ ELSE @]
    /\ UNCHANGED <<ceiling, permits, cmdq, coord, registry, cancelled, tasks,
                   fetches, evq, emitted, jobs, popup, cancelReq>>
    /\ UNCHANGED call

\* app.rs:339-355: settings_popup.take(), the configuration gets the value
\* of the popup, and UpdateConcurrent is tried with it
AppSaveSettings ==
    /\ ~ui.should_quit
    /\ ui.settings_popup.open
    /\ cmdq' = TrySendAll(cmdq,
                 <<UpdateConcurrentCmd(ui.settings_popup.concurrent_downloads)>>)
    /\ ui' = [ui EXCEPT !.settings_popup = NoSettings,
                        !.max_concurrent_downloads =
                            ui.settings_popup.concurrent_downloads]
    /\ UNCHANGED <<ceiling, permits, coord, registry, cancelled, tasks,
                   fetches, evq, emitted, jobs, popup, cancelReq>>
    /\ UNCHANGED call

\* ------------------------------------------------------------ specification
\* The commands that drive the download side of the engine
Commands ==
    {StartJobCmd(j) : j \in JobIds} \cup {CancelJobCmd(j) : j \in JobIds}
        \cup {ShutdownCmd}

Next ==
    \/ \E c \in Commands : SendCommand(c)
    \/ EventRecv
    \/ RecvStartJob
    \/ AcquirePermit
    \/ InsertAndSpawn
    \/ RecvCancelJob
    \/ RecvShutdown
    \/ \E t \in DOMAIN tasks : TaskSendStarted(t)
    \/ \E t \in DOMAIN tasks, ok \in BOOLEAN : TaskSpawnChild(t, ok)
    \/ \E t \in DOMAIN tasks, killed \in BOOLEAN : TaskSelectCancelled(t, killed)
    \/ \E t \in DOMAIN tasks, k \in LineKinds : TaskReadLine(t, k)
    \/ \E t \in DOMAIN tasks : TaskSendProgress(t)
    \/ \E t \in DOMAIN tasks : TaskReadEnd(t)
    \/ \E t \in DOMAIN tasks, o \in WaitOutcomes : TaskWait(t, o)
    \/ \E t \in DOMAIN tasks : TaskSendTerminal(t)
    \/ \E t \in DOMAIN tasks : TaskRemove(t)
    \/ \E t \in DOMAIN tasks : TaskDropPermit(t)

Spec == Init /\ [][Next]_vars

\* The engine with metadata fetches next to downloads
FetchAndStart ==
    {FetchFormatsCmd(j) : j \in JobIds} \cup {StartJobCmd(j) : j \in JobIds}

NextEngine ==
    \/ \E c \in FetchAndStart : SendCommand(c)
    \/ EventRecv
    \/ RecvFetchFormats
    \/ \E f \in DOMAIN fetches, o \in FetchOutcomes, raw \in ToolLists :
          FetchInvoke(f, o, raw)
    \/ \E f \in DOMAIN fetches : FetchSendInner(f)
    \/ \E f \in DOMAIN fetches : FetchWrapper(f)
    \/ RecvStartJob
    \/ AcquirePermit
    \/ InsertAndSpawn
    \/ \E t \in DOMAIN tasks : TaskSendStarted(t)
    \/ \E t \in DOMAIN tasks, ok \in BOOLEAN : TaskSpawnChild(t, ok)
    \/ \E t \in DOMAIN tasks, k \in LineKinds : TaskReadLine(t, k)
    \/ \E t \in DOMAIN tasks : TaskSendProgress(t)
    \/ \E t \in DOMAIN tasks : TaskReadEnd(t)
    \/ \E t \in DOMAIN tasks, o \in WaitOutcomes : TaskWait(t, o)
    \/ \E t \in DOMAIN tasks : TaskSendTerminal(t)
    \/ \E t \in DOMAIN tasks : TaskRemove(t)
    \/ \E t \in DOMAIN tasks : TaskDropPermit(t)

SpecEngine == Init /\ [][NextEngine]_vars

\* The engine with changes of the ceiling next to downloads, started with
\* the largest ceiling
StartAndUpdate ==
    {StartJobCmd(j) : j \in JobIds} \cup {UpdateConcurrentCmd(n) : n \in 1..MaxK}

InitConc == Init /\ ceiling = MaxK

NextConc ==
    \/ \E c \in StartAndUpdate : SendCommand(c)
    \/ EventRecv
    \/ RecvStartJob
    \/ AcquirePermit
    \/ InsertAndSpawn
    \/ RecvUpdateConcurrent
    \/ \E t \in DOMAIN tasks : TaskSendStarted(t)
    \/ \E t \in DOMAIN tasks, ok \in BOOLEAN : TaskSpawnChild(t, ok)
    \/ \E t \in DOMAIN tasks, k \in LineKinds : TaskReadLine(t, k)
    \/ \E t \in DOMAIN tasks : TaskSendProgress(t)
    \/ \E t \in DOMAIN tasks : TaskReadEnd(t)
    \/ \E t \in DOMAIN tasks, o \in WaitOutcomes : TaskWait(t, o)
    \/ \E t \in DOMAIN tasks : TaskSendTerminal(t)
    \/ \E t \in DOMAIN tasks : TaskRemove(t)
    \/ \E t \in DOMAIN tasks : TaskDropPermit(t)

SpecConc == InitConc /\ [][NextConc]_vars

\* The functions run on their own, each on every input within the bounds
InitCalls ==
    /\ InitProgram
    /\ ceiling = MaxK
    /\ \/ call \in {CallOf("classify", f) : f \in AllFormats}
       \/ call \in {CallOf("parse_progress", l) : l \in Lines}
       \/ call \in {CallOf("read_loop", ls) :
                       ls \in UNION {[1..n -> ReadLines] : n \in 0..MaxRead}}

NextCalls ==
    \/ CallClassify
    \/ CallParseProgress
    \/ CallReadLine
    \/ CallReadEnd

SpecCalls == InitCalls /\ [][NextCalls]_vars

\* The engine driven by App: every command comes from a handler of App and
\* every event is folded into App.jobs
NextApp ==
    \/ \E j \in JobIds : WithinBudget(FetchFormatsCmd(j)) /\ AppAddUrl(j)
    \/ \E j \in JobIds : AppOpenFormatPopup(j)
    \/ AppToggleAudioOnly
    \/ AppToggleApplyToAll
    \/ AppConfirmFormat
    \/ AppStartDownloads
    \/ \E j \in JobIds : AppCancelJob(j)
    \/ \E j \in JobIds : AppRemoveJob(j)
    \/ AppFold
    \/ RecvFetchFormats
    \/ \E f \in DOMAIN fetches, o \in FetchOutcomes, raw \in ToolLists :
          FetchInvoke(f, o, raw)
    \/ \E f \in DOMAIN fetches : FetchSendInner(f)
    \/ \E f \in DOMAIN fetches : FetchWrapper(f)
    \/ RecvStartJob
    \/ AcquirePermit
    \/ InsertAndSpawn
    \/ RecvCancelJob
    \/ \E t \in DOMAIN tasks : TaskSendStarted(t)
    \/ \E t \in DOMAIN tasks, ok \in BOOLEAN : TaskSpawnChild(t, ok)
    \/ \E t \in DOMAIN tasks, killed \in BOOLEAN : TaskSelectCancelled(t, killed)
    \/ \E t \in DOMAIN tasks, k \in LineKinds : TaskReadLine(t, k)
    \/ \E t \in DOMAIN tasks : TaskSendProgress(t)
    \/ \E t \in DOMAIN tasks : TaskReadEnd(t)
    \/ \E t \in DOMAIN tasks, o \in WaitOutcomes : TaskWait(t, o)
    \/ \E t \in DOMAIN tasks : TaskSendTerminal(t)
    \/ \E t \in DOMAIN tasks : TaskRemove(t)
    \/ \E t \in DOMAIN tasks : TaskDropPermit(t)

SpecApp == Init /\ [][NextApp]_vars

\* The format lists the tool may answer with, long enough for a popup with
\* more than one row
PopupToolLists ==
    UNION { [1..n -> FormatChoices] : n \in 0..MaxPopupFormats }

\* App with its job list, its selection, its format popup and its
\* playlists, over the metadata side of the engine: no download is started
NextUi ==
    \/ \E j \in JobIds : AppAddUrl(j)
    \/ AppAddPlaylistUrl
    \/ AppSelectNext
    \/ AppSelectPrev
    \/ SelectedJob # 0 /\ AppOpenFormatPopup(SelectedJob)
    \/ AppCloseFormatPopup
    \/ AppFormatSelectNext
    \/ AppFormatSelectPrev
    \/ AppToggleAudioOnly
    \/ AppToggleApplyToAll
    \/ AppConfirmFormat
    \/ \E j \in JobIds : AppRemoveJob(j)
    \/ AppFold
    \/ \E n \in 0..NumJobs : AppPlaylistExpanded(n)
    \/ RecvFetchFormats
    \/ RecvFetchPlaylist
    \/ \E f \in DOMAIN fetches, o \in FetchOutcomes, raw \in PopupToolLists :
          FetchInvoke(f, o, raw)
    \/ \E f \in DOMAIN fetches : FetchSendInner(f)
    \/ \E f \in DOMAIN fetches : FetchWrapper(f)
    \/ \E f \in DOMAIN fetches : PlaylistSend(f)

SpecUi == Init /\ [][NextUi]_vars

\* App with its settings popup, started with any -j, over a coordinator
\* that receives what SaveSettings sends
InitSettings == (\E k \in 0..MaxConcurrent : InitWith(k)) /\ call = NoCall

NextSettings ==
    \/ AppToggleSettings
    \/ AppCloseSettings
    \/ AppSettingsNext
    \/ AppSettingsPrev
    \/ AppSettingsIncrement
    \/ AppSettingsDecrement
    \/ AppSettingsToggleEdit
    \/ AppSaveSettings
    \/ RecvUpdateConcurrent

SpecSettings == InitSettings /\ [][NextSettings]_vars

\* App with its quit dialogue, next to the handlers that add and cancel
\* jobs, over the metadata side of the engine
NextQuit ==
    \/ AppQuit
    \/ AppCancelQuit
    \/ AppConfirmQuit
    \/ \E j \in JobIds : ~ui.should_quit /\ AppAddUrl(j)
    \/ \E j \in JobIds : ~ui.should_quit /\ AppCancelJob(j)
    \/ ~ui.should_quit /\ AppFold
    \/ RecvFetchFormats
    \/ RecvCancelJob
    \/ RecvShutdown
    \/ \E f \in DOMAIN fetches, o \in FetchOutcomes, raw \in ToolLists :
          FetchInvoke(f, o, raw)
    \/ \E f \in DOMAIN fetches : FetchSendInner(f)
    \/ \E f \in DOMAIN fetches : FetchWrapper(f)

SpecQuit == Init /\ [][NextQuit]_vars

\* ------------------------------------------------------------ vocabulary
TasksOf(j) == {t \in DOMAIN tasks : tasks[t].job = j}

\* Task t has passed permit acquisition and has not finished
Active(t) == tasks[t].pc # "done"

\* Task t is running: spawned, and its terminal event not yet emitted
Running(t) == tasks[t].pc \notin {"remove", "drop", "done"}

\* Task t owns a subprocess that it has neither killed nor waited for
HasSubprocess(t) == tasks[t].child = "running"

Types(j) == [i \in 1..Len(emitted[j]) |-> emitted[j][i].type]

TerminalCount(j) == Cardinality({i \in 1..Len(emitted[j]) : emitted[j][i].type \in Terminal})

TerminalEmittedBy(t) ==
    \E i \in 1..Len(emitted[tasks[t].job]) :
        /\ emitted[tasks[t].job][i].task = t
        /\ emitted[tasks[t].job][i].type \in Terminal

\* The coordinator is about to receive the command at the head of the channel
AtHead(ty) == coord.pc = "recv" /\ cmdq # <<>> /\ Head(cmdq).type = ty

\* The statuses the caller treats as final (JobStatus, events.rs:188-197)
TerminalStatus == {"Completed", "Failed", "Cancelled"}

\* Nothing of job j is in flight: no command, no event, no task at work
Settled(j) ==
    /\ \A i \in 1..Len(cmdq) : cmdq[i].job # j
    /\ \A i \in 1..Len(evq) : evq[i].job # j
    /\ coord.job # j
    /\ \A t \in TasksOf(j) : ~Active(t)

\* The step is App::handle_event folding the engine event e
Folds(e) == evq # <<>> /\ Head(evq) = e /\ evq' = Tail(evq)

\* ------------------------------------------------------------ claims

\* C1: in every reachable state at most K (the ceiling) download tasks have
\* passed permit acquisition and not yet finished; hence at most K hold an
\* active subprocess.  The permits are conserved: free + held = K.
C1_AtMostCeilingActive ==
    /\ Cardinality({t \in DOMAIN tasks : Active(t)}) <= ceiling
    /\ Cardinality({t \in DOMAIN tasks : HasSubprocess(t)}) <= ceiling
    /\ permits + Cardinality({t \in DOMAIN tasks : tasks[t].permit})
         + (IF coord.permit THEN 1 ELSE 0) = ceiling

\* C1 witness: K = 1 subprocess is running and a further StartJob waits
C1_Witness ==
    /\ ceiling = 1
    /\ coord.pc = "acquire"
    /\ \E t \in DOMAIN tasks : HasSubprocess(t)

\* C2 (as claimed): once CancelJob(j) has been processed while a task for j
\* was running (its token is signalled and no Shutdown was processed) and the
\* tasks of j have finished, exactly one terminal event was emitted for j and
\* the registry has no entry for j.
C2_ExactlyOneTerminal ==
    \A j \in JobIds :
        (/\ coord.pc # "done"
         /\ \E t \in TasksOf(j) : t \in cancelled
         /\ \A t \in TasksOf(j) : tasks[t].pc = "done")
        => (TerminalCount(j) = 1 /\ registry[j] = 0)

\* C3: receiving CancelJob(j) when the registry has no entry for j changes
\* nothing but the inbound channel: no event, no token signalled, registry,
\* permits, tasks and the coordinator's position unchanged.
C3_CancelWithoutEntryIsNoop ==
    [][(AtHead("CancelJob") /\ registry[Head(cmdq).job] = 0 /\ cmdq' = Tail(cmdq))
        => UNCHANGED <<permits, coord, registry, cancelled, tasks, evq, emitted>>]_vars

\* C3 witness: CancelJob(j) is about to be received, j's task has finished
\* (entry removed), and another job is being downloaded
C3_Witness ==
    /\ AtHead("CancelJob")
    /\ registry[Head(cmdq).job] = 0
    /\ \E t \in TasksOf(Head(cmdq).job) : tasks[t].pc = "done"
    /\ \E t \in DOMAIN tasks : Running(t) /\ registry[tasks[t].job] = t

\* C4: the step that receives Shutdown signals the token of every job that
\* has a registry entry at that moment.
C4_ShutdownSignalsAll ==
    [][(AtHead("Shutdown") /\ cmdq' = Tail(cmdq))
        => \A j \in JobIds : registry[j] # 0 => registry[j] \in cancelled']_vars

\* C4 witness: Shutdown has been processed (the coordinator is done) with two
\* jobs registered, both now signalled and still running
C4_Witness ==
    /\ coord.pc = "done"
    /\ \A j \in JobIds :
         /\ registry[j] # 0
         /\ registry[j] \in cancelled
         /\ Running(registry[j])

\* C5: once the coordinator has processed Shutdown it stays done: nothing is
\* received from the inbound channel, no task is spawned, no registry entry
\* is inserted and no token is signalled.
C5_NothingAfterShutdown ==
    [][coord.pc = "done"
        => /\ coord' = coord
           /\ cmdq' = cmdq
           /\ Len(tasks') = Len(tasks)
           /\ cancelled' = cancelled
           /\ \A j \in JobIds : registry'[j] \in {registry[j], 0}]_vars

\* C5 witness: the coordinator is done, a StartJob sent after Shutdown is
\* still in the channel and no task exists for it
C5_Witness ==
    /\ coord.pc = "done"
    /\ cmdq # <<>>
    /\ Head(cmdq).type = "StartJob"
    /\ TasksOf(Head(cmdq).job) = {}
    /\ permits > 0

\* C6 (as claimed): the events emitted for one job are JobStarted, then
\* JobProgress zero or more times, then at most one terminal event, and
\* nothing after the terminal event.
WellOrdered(s) ==
    \A i \in 1..Len(s) :
        /\ (i = 1) <=> (s[i] = "JobStarted")
        /\ (s[i] \in Terminal) => i = Len(s)

C6_EventOrder == \A j \in JobIds : WellOrdered(Types(j))

\* C7 (as claimed): a running download task (spawned, terminal event not yet
\* emitted) holds a permit and the registry has an entry for its job.
C7_RunningHasPermitAndEntry ==
    \A t \in DOMAIN tasks :
        Running(t) => (tasks[t].permit /\ registry[tasks[t].job] # 0)

\* C8 (as claimed): there is no state in which the terminal event of a task
\* for j has been emitted while j's entry is present or the permit is held.
C8_ReleaseAtomicWithTerminal ==
    \A t \in DOMAIN tasks :
        TerminalEmittedBy(t) => (registry[tasks[t].job] = 0 /\ ~tasks[t].permit)

\* C8 (amended): the permit is released only after the task's terminal
\* event, the task's own entry is gone once the task has passed its remove
\* step, and a finished task holds neither.
C8_ReleaseAfterTerminal ==
    \A t \in DOMAIN tasks :
        /\ ~tasks[t].permit => TerminalEmittedBy(t)
        /\ tasks[t].pc \in {"remove", "drop", "done"} <=> TerminalEmittedBy(t)
        /\ tasks[t].pc \in {"drop", "done"} => registry[tasks[t].job] # t
        /\ tasks[t].pc = "done" => ~tasks[t].permit

\* C8 witness: a cancelled task has emitted its terminal event and finished
C8_Witness ==
    \E t \in DOMAIN tasks :
        /\ tasks[t].pc = "done"
        /\ t \in cancelled
        /\ TerminalEmittedBy(t)
        /\ permits = ceiling

\* C9 (as claimed): no insert overwrites an existing entry, and an entry is
\* removed only by the task that owns it (the task holding that token).
C9_InsertOnceRemoveOwn ==
    [][\A j \in JobIds :
         /\ (registry'[j] # registry[j] /\ registry'[j] # 0) => registry[j] = 0
         /\ (registry[j] # 0 /\ registry'[j] = 0)
              => (tasks[registry[j]].pc = "remove" /\ tasks'[registry[j]].pc = "drop")]_vars

\* C10: while a StartJob waits for a permit, nothing has been done for it:
\* no registry entry carries the token it would get, every entry and every
\* emitted event belongs to a task already spawned (which took a permit), and
\* if no StartJob for that job was admitted before, the job has no entry and
\* no event at all.
C10_NothingBeforePermit ==
    coord.pc = "acquire" =>
        /\ ~coord.permit
        /\ \A j \in JobIds : registry[j] <= Len(tasks)
        /\ \A j \in JobIds : \A i \in 1..Len(emitted[j]) :
               emitted[j][i].task \in DOMAIN tasks
        /\ TasksOf(coord.job) = {}
             => (registry[coord.job] = 0 /\ emitted[coord.job] = <<>>)

\* C10 witness: a StartJob for a job never started waits while all permits
\* are held by a running download
C10_Witness ==
    /\ coord.pc = "acquire"
    /\ permits = 0
    /\ TasksOf(coord.job) = {}
    /\ \E t \in DOMAIN tasks : HasSubprocess(t)

\* Task t sends its terminal event in this step; LastEmitted(j)' is that event
SendsTerminal(t) == tasks[t].pc = "term" /\ tasks'[t].pc = "remove"

LastEmitted(j) == emitted[j][Len(emitted[j])]

\* C11: a FetchFormats command never waits for a download to finish: the
\* coordinator is never halted on a permit that only a running download can
\* give back while a FetchFormats command sits in the inbound channel.
C11_FetchNeverWaitsForDownload ==
    ~ (/\ coord.pc = "acquire"
       /\ permits = 0
       /\ \A t \in DOMAIN tasks : Active(t) => Running(t)
       /\ \E i \in 1..Len(cmdq) : cmdq[i].type = "FetchFormats")

\* C12 (as claimed): a CancelJob(j) for a job that is downloading never has
\* to wait for a running download to finish: there is no state in which it
\* sits in the channel while the coordinator is suspended in acquire with
\* every permit held by a download that has not yet ended.
C12_CancelNeverWaitsForDownload ==
    ~ (/\ coord.pc = "acquire"
       /\ permits = 0
       /\ \A t \in DOMAIN tasks : Active(t) => Running(t)
       /\ \E i \in 1..Len(cmdq) :
            /\ cmdq[i].type = "CancelJob"
            /\ registry[cmdq[i].job] # 0
            /\ Running(registry[cmdq[i].job]))

\* C13: processing UpdateConcurrent(n) with n below the number of running
\* download tasks cancels no token and ends no task: what ran before the
\* step runs after it.
C13_LoweringCancelsNothing ==
    [][(AtHead("UpdateConcurrent") /\ cmdq' = Tail(cmdq)
          /\ Head(cmdq).n < Cardinality({t \in DOMAIN tasks : Running(t)})) =>
         /\ cancelled' = cancelled
         /\ tasks' = tasks
         /\ \A t \in DOMAIN tasks : Running(t) => Running(t)']_vars

\* The ceiling has been lowered below the number of tasks that run, and
\* none of them has been signalled
C13_Witness ==
    /\ Cardinality({t \in DOMAIN tasks : Running(t)}) > ceiling
    /\ cancelled = {}

C15_TerminalStatusIsFinal ==
    [][\A j \in JobIds :
         (jobs[j].status \in TerminalStatus /\ InJobs(j)') =>
             jobs'[j].status = jobs[j].status]_vars

\* C16: a job the caller cancelled while it was downloading is not left in
\* Failed by the engine's cancellation outcome once everything of the job
\* has been folded.
C16_CancelledNotFailed ==
    \A j \in cancelReq :
        Settled(j) =>
            ~ (jobs[j].status = "Failed" /\ jobs[j].error = "Download cancelled")

\* C17: no job is Ready with an empty format list, and folding a FormatsReady
\* event with no formats sets the job to Failed("No formats found").
C17_NoReadyWithoutFormats ==
    /\ [](\A j \in JobIds : jobs[j].status = "Ready" => jobs[j].formats # <<>>)
    /\ [][\A j \in JobIds :
            (Folds(FormatsReadyEvent(j, <<>>)) /\ InJobs(j)) =>
                (jobs'[j].status = "Failed" /\ jobs'[j].error = "No formats found")]_vars

\* A successful fetch whose formats were all filtered out has been folded
C17_Witness ==
    \E j \in JobIds, f \in DOMAIN fetches :
        /\ fetches[f].job = j
        /\ fetches[f].pc = "done" /\ fetches[f].ret = "ok"
        /\ jobs[j].status = "Failed" /\ jobs[j].error = "No formats found"

\* C18: a fetch task invokes the tool at most once and sends at most one
\* event, and a finished one has done exactly one of each; every received
\* FetchFormats command has exactly one fetch task.
C18_OneInvocationOneEvent ==
    \A f \in DOMAIN fetches :
        /\ fetches[f].invoked <= 1
        /\ fetches[f].sent <= fetches[f].invoked
        /\ fetches[f].pc = "done" => (fetches[f].invoked = 1 /\ fetches[f].sent = 1)

\* A fetch that failed before the tool answered has ended with its one event
C18_Witness ==
    \E f \in DOMAIN fetches :
        fetches[f].pc = "done" /\ fetches[f].ret = "err" /\ fetches[f].sent = 1

\* C23: only RemoveJob takes a Job out of App.jobs: a step after which an
\* id is no longer in App.jobs is the RemoveJob handler run for that id.
C23_OnlyRemoveJobRemoves ==
    [][\A j \in JobIds : (InJobs(j) /\ ~InJobs(j)') => AppRemoveJob(j)]_vars

\* Engine events of a job were folded, down to its failure, and the job is
\* still in App.jobs
C23_Witness ==
    \E j \in JobIds :
        /\ jobs[j].status = "Failed"
        /\ emitted[j] # <<>>
        /\ LastEmitted(j).type = "JobFailed"
        /\ evq = <<>>

\* C24: ConfirmFormat changes the status only of jobs that are Ready or
\* Queued: a job in any other status keeps it when the popup is confirmed.
C24_ConfirmOnlyReadyOrQueued ==
    [][\A j \in JobIds :
         (popup.job # 0 /\ popup'.job = 0
            /\ jobs[j].status \notin {"Ready", "Queued"}) =>
             jobs'[j].status = jobs[j].status]_vars

\* C25: is_video holds exactly when the video codec is present and not
\* "none", is_audio_only exactly when is_video does not hold and the audio
\* codec is present and not "none"; never both; of {vcodec none, acodec
\* mp4a.40.2} and {vcodec avc1, acodec none} the first is audio-only and not
\* video, the second video and not audio-only.
C25_CodecPredicates ==
    (call.fn = "classify" /\ call.done) =>
        /\ call.ret.video <=> call.arg.vcodec \notin {"absent", "none"}
        /\ call.ret.audio_only <=>
               (~call.ret.video /\ call.arg.acodec \notin {"absent", "none"})
        /\ ~(call.ret.video /\ call.ret.audio_only)
        /\ (call.arg.vcodec = "none" /\ call.arg.acodec = "mp4a.40.2") =>
               (call.ret.audio_only /\ ~call.ret.video)
        /\ (call.arg.vcodec = "avc1" /\ call.arg.acodec = "none") =>
               (call.ret.video /\ ~call.ret.audio_only)

\* A format without any codec has been classified as neither
C25_Witness ==
    /\ call.fn = "classify" /\ call.done
    /\ call.arg.vcodec = "absent" /\ call.arg.acodec = "absent"
    /\ ~call.ret.video /\ ~call.ret.audio_only

\* C26: on tool success the FormatsReady event carries exactly the formats
\* of the tool's list for which is_video holds, in their order.
C26_ReadyCarriesVideoFormats ==
    [][\A f \in DOMAIN fetches :
         (fetches[f].pc = "send_ready" /\ fetches'[f].pc = "done") =>
             evq'[Len(evq')] =
                 FormatsReadyEvent(fetches[f].job,
                                   SelectSeq(fetches[f].raw, IsVideo))]_vars

\* C19: a task sends JobCompleted exactly when the subprocess was waited
\* for and exited with status zero and an output path line was captured; a
\* non-zero exit with a path, and a zero exit without a path, send JobFailed.
C19_CompletedIffZeroExitAndPath ==
    [][\A t \in DOMAIN tasks :
         SendsTerminal(t) =>
            /\ LastEmitted(tasks[t].job)'.task = t
            /\ LastEmitted(tasks[t].job)'.type \in Terminal
            /\ LastEmitted(tasks[t].job)'.type = "JobCompleted"
                 <=> (tasks[t].exit = "zero_exit" /\ tasks[t].path)]_vars

\* C19 witness: the subprocess exited non-zero although a path was captured,
\* and the task has its result and is about to report it
C19_Witness ==
    \E t \in DOMAIN tasks :
        /\ tasks[t].pc = "term"
        /\ tasks[t].exit = "nonzero_exit"
        /\ tasks[t].path
        /\ tasks[t].result = "exit_code"

BlockedOnSend(t) ==
    tasks[t].pc \in {"start", "progress", "term"} /\ Len(evq) >= EvCap

\* C22: a full outbound event channel never keeps the coordinator from
\* completing a command: the coordinator never waits for a permit that only
\* tasks suspended on the full channel could give back.
C22_FullEventsNeverBlockCoordinator ==
    ~ (/\ coord.pc = "acquire"
       /\ permits = 0
       /\ \A t \in DOMAIN tasks : Active(t) => BlockedOnSend(t))

\* The first token of the line that ends in "%" (0: there is none)
FirstPercentIndex(line) ==
    IF \E i \in 1..Len(line) : EndsWithPercent(line[i])
    THEN CHOOSE i \in 1..Len(line) :
            /\ EndsWithPercent(line[i])
            /\ \A k \in 1..(i - 1) : ~EndsWithPercent(line[k])
    ELSE 0

\* The line has "[download]" and "%" in it and its first token that ends in
\* "%" is a number
Recognized(line) ==
    /\ LineContains(line, {"[download]"})
    /\ LineContains(line, {"%"})
    /\ FirstPercentIndex(line) # 0
    /\ ParseF32(TrimEndPercent(line[FirstPercentIndex(line)])) # <<>>

\* C27: parse_progress returns a progress update exactly for the lines with
\* "[download]" and "%" whose first token ending in "%" is a number, with
\* that number as the percent; "[download]  42.0% of 10.00MiB at 1.20MiB/s
\* ETA 00:07" gives 42.0, 1.20MiB/s and 00:07, and "[info] Extracting URL"
\* gives nothing.
C27_ProgressIffFirstPercentParses ==
    (call.fn = "parse_progress" /\ call.done) =>
        /\ call.ret # <<>> <=> Recognized(call.arg)
        /\ Recognized(call.arg) =>
               call.ret[1].percent =
                   ParseF32(TrimEndPercent(call.arg[FirstPercentIndex(call.arg)]))[1]
        /\ call.arg = ExampleLine =>
               call.ret = << [percent |-> 42, speed |-> <<"1.20MiB", "/s">>,
                              eta |-> <<"00:07">>] >>
        /\ call.arg = InfoLine => call.ret = <<>>

\* Nothing was returned for a line whose first percent token is no number
\* and which has a percent token further on that is one
C27_Witness ==
    /\ call.fn = "parse_progress" /\ call.done
    /\ call.ret = <<>>
    /\ LineContains(call.arg, {"[download]"})
    /\ FirstPercentIndex(call.arg) # 0
    /\ \E i \in (FirstPercentIndex(call.arg) + 1)..Len(call.arg) :
           /\ EndsWithPercent(call.arg[i])
           /\ ParseF32(TrimEndPercent(call.arg[i])) # <<>>

\* The first token that is the text "ETA" and nothing else (0: none)
MarkerTokenIndex(line) ==
    IF \E i \in 1..Len(line) : line[i] = <<"ETA">>
    THEN CHOOSE i \in 1..Len(line) :
            line[i] = <<"ETA">> /\ \A k \in 1..(i - 1) : line[k] # <<"ETA">>
    ELSE 0

\* The first token with "/s" in it, or "--"
FirstRateToken(line) ==
    IF \E i \in 1..Len(line) : TokenContains(line[i], {"/s"})
    THEN line[CHOOSE i \in 1..Len(line) :
                 /\ TokenContains(line[i], {"/s"})
                 /\ \A k \in 1..(i - 1) : ~TokenContains(line[k], {"/s"})]
    ELSE <<"--">>

\* C28: for a recognized line, speed is the first token with "/s" in it or
\* "--", and eta is the token that follows the ETA marker token, or "--" if
\* there is no marker token or no token after it.
C28_EtaFollowsMarkerToken ==
    (call.fn = "parse_progress" /\ call.done /\ call.ret # <<>>) =>
        /\ call.ret[1].speed = FirstRateToken(call.arg)
        /\ call.ret[1].eta =
               IF MarkerTokenIndex(call.arg) = 0
                    \/ MarkerTokenIndex(call.arg) = Len(call.arg)
               THEN <<"--">>
               ELSE call.arg[MarkerTokenIndex(call.arg) + 1]

\* C28 as amended: eta is the text between the first "ETA" of the line and
\* the next whitespace if there is such text, the token after the token
\* with that "ETA" otherwise, and "--" if the line has no "ETA" or nothing
\* after it.
C28_EtaFollowsMarkerText ==
    (call.fn = "parse_progress" /\ call.done /\ call.ret # <<>>) =>
        /\ call.ret[1].speed = FirstRateToken(call.arg)
        /\ ~LineContains(call.arg, {"ETA"}) => call.ret[1].eta = <<"--">>
        /\ \A i \in 1..Len(call.arg), p \in 1..MaxTokens :
              ( /\ p <= Len(call.arg[i])
                /\ call.arg[i][p] = "ETA"
                /\ \A k \in 1..(p - 1) : call.arg[i][k] # "ETA"
                /\ \A k \in 1..(i - 1) : ~TokenContains(call.arg[k], {"ETA"}) ) =>
                  call.ret[1].eta =
                      IF p < Len(call.arg[i])
                      THEN SubSeq(call.arg[i], p + 1, Len(call.arg[i]))
                      ELSE IF i < Len(call.arg) THEN call.arg[i + 1]
                           ELSE <<"--">>

\* A recognized line whose "ETA" is inside a token: eta is the rest of it
C28_Witness ==
    /\ call.fn = "parse_progress" /\ call.done /\ call.ret # <<>>
    /\ MarkerTokenIndex(call.arg) = 0
    /\ LineContains(call.arg, {"ETA"})
    /\ call.ret[1].eta = <<"00:07">>

\* The line is captured as the output path unless it decodes as progress
PathLike(line) ==
    ParseProgress(line) = <<>> /\ ~StartsWithBracket(line) /\ ContainsSlash(line)

\* C29: of the lines read so far, each one that decodes as progress has
\* sent one JobProgress and is not the captured path; the captured path is
\* the last line read that does not decode as progress, does not start with
\* "[" and has "/" in it; download returns that path.
C29_LinesClassifiedOneWay ==
    call.fn = "read_loop" =>
        /\ call.sent =
               Cardinality({i \in 1..call.pos : ParseProgress(call.arg[i]) # <<>>})
        /\ (\A i \in 1..call.pos : ~PathLike(call.arg[i])) => call.path = <<>>
        /\ \A i \in 1..call.pos :
               (PathLike(call.arg[i])
                  /\ \A k \in (i + 1)..call.pos : ~PathLike(call.arg[k])) =>
                   call.path = <<call.arg[i]>>
        /\ call.done => (call.pos = Len(call.arg) /\ call.ret = call.path)

\* Two different paths were captured, then a progress line with "/" in it
\* was read; the second path was returned
C29_Witness ==
    /\ call.fn = "read_loop" /\ call.done
    /\ call.sent = 1
    /\ \E i, k \in 1..Len(call.arg) :
           /\ i < k
           /\ PathLike(call.arg[i]) /\ PathLike(call.arg[k])
           /\ call.arg[i] # call.arg[k]
           /\ k < Len(call.arg)
           /\ ContainsSlash(call.arg[Len(call.arg)])
           /\ ParseProgress(call.arg[Len(call.arg)]) # <<>>
           /\ call.ret = <<call.arg[k]>>

\* C30: when the coordinator processes CancelJob(j), every download task
\* running for j has its token signalled after the step.
C30_CancelReachesEveryRunningTask ==
    [][(AtHead("CancelJob") /\ cmdq' = Tail(cmdq)) =>
         \A t \in TasksOf(Head(cmdq).job) : Running(t) => t \in cancelled']_vars

\* C31: whatever the caller does (StartDownloads repeated, a format selected
\* again while a start is pending), at most one download task per job
\* identifier is running at any time.
C31_OneRunningTaskPerJob ==
    \A j \in JobIds : Cardinality({t \in TasksOf(j) : Running(t)}) <= 1

\* The coordinator is between two commands and every task spawned has ended
Quiescent ==
    /\ coord.pc \in {"recv", "done"}
    /\ \A t \in DOMAIN tasks : tasks[t].pc = "done"

\* C32: once every spawned download task has finished and the coordinator
\* is not in the middle of a StartJob, the registry is empty and all K
\* permits are available, whether the tasks completed, failed or were
\* cancelled.
C32_QuiescenceLeaksNothing ==
    Quiescent => /\ \A j \in JobIds : registry[j] = 0
                 /\ permits = ceiling

\* Two tasks have run and ended, one with JobCompleted and one with
\* JobFailed after a cancellation was signalled
C32_Witness ==
    /\ Quiescent
    /\ Len(tasks) = MaxTasks
    /\ cancelled # {}
    /\ \E j \in JobIds : "JobCompleted" \in {Types(j)[i] : i \in 1..Len(emitted[j])}
    /\ \E j \in JobIds : "JobFailed" \in {Types(j)[i] : i \in 1..Len(emitted[j])}
    /\ permits = ceiling

\* The FetchFormats of job j is on its way: in the inbound channel, or run by
\* a fetch task, or answered by an event still in the outbound channel
FetchInFlight(j) ==
    \/ \E i \in 1..Len(cmdq) : cmdq[i] = FetchFormatsCmd(j)
    \/ \E f \in DOMAIN fetches : fetches[f].job = j /\ fetches[f].pc # "done"
    \/ \E i \in 1..Len(evq) :
          evq[i].job = j /\ evq[i].type \in {"FormatsReady", "JobFailed"}

\* C33: a job created by AddUrl or PlaylistExpanded leaves FetchingFormats in
\* the end, also when the inbound channel is full when it is created; so
\* while a job is in FetchingFormats its FetchFormats is on its way to an
\* answer.
C33_FetchingJobGetsAnAnswer ==
    \A j \in JobIds : jobs[j].status = "FetchingFormats" => FetchInFlight(j)

\* C34: the value of the settings popup, every value sent in
\* UpdateConcurrent and every ceiling of the permit pool lie within 1..10; the
\* ceiling is never 0.
C34_ConcurrencyWithinRange ==
    /\ ui.settings_popup.open =>
          ui.settings_popup.concurrent_downloads \in SettingsMin..SettingsMax
    /\ \A i \in 1..Len(cmdq) :
          cmdq[i].type = "UpdateConcurrent" => cmdq[i].n \in SettingsMin..SettingsMax
    /\ ceiling \in SettingsMin..SettingsMax

\* C35: should_quit is set only by a Quit handled while confirm_quit is set
\* or by ConfirmQuit, never by a Quit handled while confirm_quit is false,
\* and the step that sets it hands Shutdown to try_send, which queues it
\* when the channel is open and has room.
C35_QuitNeedsConfirmation ==
    [][(ui'.should_quit /\ ~ui.should_quit) =>
          /\ \/ ui'.last = "ConfirmQuit"
             \/ ui'.last = "Quit" /\ ui.confirm_quit
          /\ ui'.offered = ui.offered + 1
          /\ cmdq' = IF coord.pc # "done" /\ Len(cmdq) < CmdCap
                     THEN Append(cmdq, ShutdownCmd) ELSE cmdq]_vars

\* Quit was handled twice and the second one quit, with Shutdown queued
C35_Witness ==
    /\ ui.should_quit
    /\ ui.last = "Quit"
    /\ ui.confirm_quit
    /\ ui.offered = 1
    /\ \E i \in 1..Len(cmdq) : cmdq[i] = ShutdownCmd

\* C36: selected_index is below the length of the job list whenever the list
\* is not empty, and is 0 whenever it is empty.
C36_SelectedIndexValid ==
    IF JobList = <<>> THEN ui.selected_index = 0
    ELSE ui.selected_index < Len(JobList)

\* The first of two jobs was removed while the second was selected: the
\* selection moved to the one row left
C36_Witness ==
    /\ jobs[1].status = "Removed"
    /\ Len(JobList) = 1
    /\ ui.selected_index = 0
    /\ SelectedJob = NumJobs

C38_PopupSelectionValid ==
    (popup.job # 0 /\ FilteredFormats(popup.formats, popup.audio_only) # <<>>)
        => /\ popup.selected < Len(FilteredFormats(popup.formats, popup.audio_only))
           /\ SelectedFormat(popup) # <<>>

\* The last row of a list of more than one format is selected, in the view
\* the caller came back to
C38_Witness ==
    /\ popup.job # 0
    /\ popup.selected = MaxPopupFormats - 1
    /\ popup.selected > 0
    /\ ~popup.audio_only
    /\ popup.apply_to_all

\* C39: loading_playlists is the number of FetchPlaylist commands placed in
\* the channel and not yet answered by PlaylistExpanded.
C39_LoadingCountsPlaced ==
    ui.loading_playlists = ui.placed - ui.answered
====
